---- MODULE Spec2Model ----
\* Model of the link-verification and reconciliation engine of src/fixer.py
\* (FixerBot, LinkChecker, DataValidator, FixerStats).
EXTENDS Integers, Sequences, FiniteSets, TLC

\* ---------------------------------------------------------------- bounds
\* How far the wall clock runs past its first reading.
MaxTime == 1
\* Number of calls that may raise in one run.
MaxFaults == 1

\* ---------------------------------------------------------------- program constants
\* FixerBot.run: parallel mode needs more than this many records.
ParallelThreshold == 5

\* The smallest catalog whose working set can run in parallel mode.
NumDocs == ParallelThreshold + 1

\* ---------------------------------------------------------------- BookStatus
PUBLISHED == "published"
SCHEDULED == "scheduled"
BROKEN == "broken"
PENDING == "pending"
ARCHIVED == "archived"
DRAFT == "draft"

\* FixerConfig defaults.
default_category == "novel"
default_status == PUBLISHED
required_fields == <<"bangla_title", "category", "download_url", "status">>

\* ---------------------------------------------------------------- values
\* A record (a Python dict) is a function from the names of its present
\* fields to their values.  The text fields hold strings as sequences of
\* characters, so that str.strip() is computed; the other fields hold
\* TLA+ strings or numbers.
TextFields == {"bangla_title", "english_title", "author"}

\* The empty (falsy) value of a field.
Empty(f) == IF f \in TextFields THEN <<>> ELSE ""

\* `f in d and d[f]` / `d.get(f)` being truthy.
Truthy(d, f) == f \in DOMAIN d /\ d[f] # Empty(f)

\* A value of an edit set: a plain value, firestore.DELETE_FIELD or
\* firestore.SERVER_TIMESTAMP.
SetTo(v) == [op |-> "set", v |-> v]
DELETE_FIELD == [op |-> "delete"]
SERVER_TIMESTAMP == [op |-> "server_timestamp"]

\* dict.update: the entries of b override those of a.
DictUpdate(a, b) ==
    [f \in (DOMAIN a) \cup (DOMAIN b) |-> IF f \in DOMAIN b THEN b[f] ELSE a[f]]

EmptyDict == [f \in {} |-> ""]

\* ---------------------------------------------------------------- str.strip
IsSpace(c) == c = " "

RECURSIVE LStrip(_)
LStrip(s) == IF s # <<>> /\ IsSpace(Head(s)) THEN LStrip(Tail(s)) ELSE s

RECURSIVE RStrip(_)
RStrip(s) ==
    IF s # <<>> /\ IsSpace(s[Len(s)]) THEN RStrip(SubSeq(s, 1, Len(s) - 1)) ELSE s

\* Strip taking off the leading blanks only.
Strip_LeftOnly(s) == LStrip(s)

\* Strip taking off at most one blank at each end.
Strip_Once(s) ==
    LET l == IF s # <<>> /\ IsSpace(Head(s)) THEN Tail(s) ELSE s
    IN IF l # <<>> /\ IsSpace(l[Len(l)]) THEN SubSeq(l, 1, Len(l) - 1) ELSE l

Strip(s) == RStrip(LStrip(s))

\* ---------------------------------------------------------------- LinkChecker
\* What session.head() ends with, after the transport's own retries: a
\* final response with a status code, or a raised exception.
HeadResponse(code) == [kind |-> "response", status_code |-> code]
HeadTimeout == [kind |-> "Timeout"]
HeadConnectionError == [kind |-> "ConnectionError"]
HeadOtherError == [kind |-> "Exception"]

\* LinkChecker.check_link: (is_working, error_message).
check_link(url, head) ==
    IF url = ""
    THEN [is_working |-> FALSE, error_msg |-> "URL missing"]
    ELSE CASE head.kind = "response" ->
                IF head.status_code = 200
                THEN [is_working |-> TRUE, error_msg |-> "None"]
                ELSE [is_working |-> FALSE,
                      error_msg |-> "Status code: " \o ToString(head.status_code)]
           [] head.kind = "Timeout" ->
                [is_working |-> FALSE, error_msg |-> "Request timeout"]
           [] head.kind = "ConnectionError" ->
                [is_working |-> FALSE, error_msg |-> "Connection error"]
           [] OTHER ->
                [is_working |-> FALSE, error_msg |-> "Unknown error: e"]

\* ---------------------------------------------------------------- DataValidator
\* RequiredDefaults with a default for every missing required field,
\* so that a download_url is made up.
RequiredDefaults_AllRequired(book_data) ==
    LET missing == {f \in {required_fields[i] : i \in 1..Len(required_fields)} :
                       ~Truthy(book_data, f)}
    IN [f \in missing |->
          IF f = "category" THEN SetTo(default_category)
          ELSE IF f = "status" THEN SetTo(default_status)
          ELSE IF f = "download_url" THEN SetTo("http://default")
          ELSE SetTo(<<"u">>)]

\* The required-fields loop of validate_book: of the required fields that
\* are missing or empty, category and status get their defaults.
RequiredDefaults(book_data) ==
    LET missing == {f \in {required_fields[i] : i \in 1..Len(required_fields)} :
                       ~Truthy(book_data, f)}
    IN [f \in missing \cap {"category", "status"} |->
          IF f = "category" THEN SetTo(default_category)
          ELSE SetTo(default_status)]

\* One of the three trim blocks of validate_book.
TrimField(book_data, f) ==
    IF Truthy(book_data, f) /\ Strip(book_data[f]) # book_data[f]
    THEN [g \in {f} |-> SetTo(Strip(book_data[f]))]
    ELSE EmptyDict

\* DataValidator.validate_book: the map of fields to update.
validate_book(book_data) ==
    DictUpdate(DictUpdate(DictUpdate(RequiredDefaults(book_data),
                                     TrimField(book_data, "bangla_title")),
                          TrimField(book_data, "english_title")),
               TrimField(book_data, "author"))

\* ---------------------------------------------------------------- process_book, pure parts
\* LinkUpdates with a reachable link always republished.
LinkUpdates_AlwaysPublishes(book_data, res) ==
    IF ~res.is_working
    THEN [f \in {"status", "error_message"} |->
            IF f = "status" THEN SetTo(BROKEN) ELSE SetTo(res.error_msg)]
    ELSE [f \in {"status"} |-> SetTo(PUBLISHED)]

\* LinkUpdates with the stale error_message left in place.
LinkUpdates_KeepsError(book_data, res) ==
    IF ~res.is_working
    THEN [f \in {"status", "error_message"} |->
            IF f = "status" THEN SetTo(BROKEN) ELSE SetTo(res.error_msg)]
    ELSE IF "status" \in DOMAIN book_data /\ book_data["status"] = BROKEN
         THEN [f \in {"status"} |-> SetTo(PUBLISHED)]
         ELSE EmptyDict

\* Lines 309-323: the edits the probe result drives.
LinkUpdates(book_data, res) ==
    IF ~res.is_working
    THEN [f \in {"status", "error_message"} |->
            IF f = "status" THEN SetTo(BROKEN) ELSE SetTo(res.error_msg)]
    ELSE IF "status" \in DOMAIN book_data /\ book_data["status"] = BROKEN
         THEN DictUpdate([f \in {"status"} |-> SetTo(PUBLISHED)],
                         IF "error_message" \in DOMAIN book_data
                         THEN [f \in {"error_message"} |-> DELETE_FIELD]
                         ELSE EmptyDict)
         ELSE EmptyDict

\* Lines 325-327: updates.update(validate_book(book_data)).
MergeValidation(updates, book_data) == DictUpdate(updates, validate_book(book_data))

\* StampUpdates with the timestamps added only to an edit set that
\* already holds a corrective edit.
StampUpdates_OnlyWhenEdited(updates, t) ==
    IF DOMAIN updates = {}
    THEN updates
    ELSE DictUpdate(updates,
                    [f \in {"last_checked", "last_fixer_run"} |->
                       IF f = "last_checked" THEN SERVER_TIMESTAMP ELSE SetTo(t)])

\* Lines 329-331: the timestamp and the run marker.
StampUpdates(updates, t) ==
    DictUpdate(updates,
               [f \in {"last_checked", "last_fixer_run"} |->
                  IF f = "last_checked" THEN SERVER_TIMESTAMP ELSE SetTo(t)])

\* Line 334: `if updates:`.
HasUpdates(updates) == DOMAIN updates # {}

\* ApplyUpdate replacing the document by the edit set (set, not update).
ApplyUpdate_Overwrites(rec, updates, t) ==
    LET kept == {f \in DOMAIN updates : updates[f].op # "delete"}
    IN [f \in kept |->
          IF updates[f].op = "server_timestamp" THEN t ELSE updates[f].v]

\* ApplyUpdate with the server's timestamp one tick behind the clock.
ApplyUpdate_StaleStamp(rec, updates, t) ==
    LET deleted == {f \in DOMAIN updates : updates[f].op = "delete"}
        kept == ((DOMAIN rec) \cup (DOMAIN updates)) \ deleted
    IN [f \in kept |->
          IF f \in DOMAIN updates
          THEN IF updates[f].op = "server_timestamp" THEN t - 1 ELSE updates[f].v
          ELSE rec[f]]

\* Firestore DocumentReference.update(updates) on a stored record at
\* server time t.
ApplyUpdate(rec, updates, t) ==
    LET deleted == {f \in DOMAIN updates : updates[f].op = "delete"}
        kept == ((DOMAIN rec) \cup (DOMAIN updates)) \ deleted
    IN [f \in kept |->
          IF f \in DOMAIN updates
          THEN IF updates[f].op = "server_timestamp" THEN t ELSE updates[f].v
          ELSE rec[f]]

\* ---------------------------------------------------------------- state
VARIABLES
    catalog,      \* the 'books' collection: document id -> record
    remote,       \* what the remote host answers for each URL
    config,       \* FixerConfig: enable_parallel, max_workers, enable_smart_filter,
                  \* check_interval_days, batch_size (0: None), max_execution_time
    now,          \* the wall clock, as last read
    start_time,   \* FixerBot.start_time (-1: None)
    stats,        \* FixerStats
    main_pc,      \* where run() is
    docs,         \* list(query.stream()): snapshots [id, data]
    next_doc,     \* position of the for loop of run_serial / run_parallel in docs
    task,         \* per document: the frame of its process_book call
    reported,     \* print_report() has been called
    fault_budget  \* how many more calls may raise

vars == <<catalog, remote, config, now, start_time, stats, main_pc, docs,
          next_doc, task, reported, fault_budget>>

DocIds == DOMAIN catalog

\* FixerStats() as constructed.
NewStats ==
    [total_scanned |-> 0, working_links |-> 0, broken_links |-> 0,
     fixed_records |-> 0, skipped_records |-> 0, errors |-> 0,
     timeout_stop |-> FALSE]

\* A process_book frame that has not been created yet.
NoLink == [is_working |-> FALSE, error_msg |-> "None"]
NewTask ==
    [pc |-> "none", book_data |-> EmptyDict, updates |-> EmptyDict,
     probed |-> FALSE, link |-> NoLink, tmp |-> 0, written |-> FALSE,
     raised |-> FALSE, slept |-> FALSE, attempts |-> 0]

\* ---------------------------------------------------------------- the clock
\* The clock when the first run starts.
FirstNow == MaxTime + 1

\* time.time(): a reading is never earlier than the one before it.
ClockReadings == now..(FirstNow + MaxTime)

\* ---------------------------------------------------------------- _get_query
\* The documents a Firestore query `last_checked < cutoff` matches: a
\* document without the field matches no inequality filter.
MatchesFilter(rec, cutoff) ==
    "last_checked" \in DOMAIN rec /\ rec["last_checked"] < cutoff

\* QueryIds with every document of the result listed twice.
QueryIds_Twice(cat, cfg, t) ==
    LET all == [i \in 1..Cardinality(DOMAIN cat) |-> i]
        sel == IF cfg.enable_smart_filter
               THEN SelectSeq(all, LAMBDA i : MatchesFilter(cat[i], t - cfg.check_interval_days))
               ELSE all
    IN sel \o sel

\* _get_query + list(query.stream()): the ids of the working set, in store order.
QueryIds(cat, cfg, t) ==
    LET all == [i \in 1..Cardinality(DOMAIN cat) |-> i]
        sel == IF cfg.enable_smart_filter
               THEN SelectSeq(all, LAMBDA i : MatchesFilter(cat[i], t - cfg.check_interval_days))
               ELSE all
    IN IF cfg.batch_size # 0 /\ cfg.batch_size < Len(sel)
       THEN SubSeq(sel, 1, cfg.batch_size)
       ELSE sel

\* ---------------------------------------------------------------- _should_stop_execution
\* _should_stop_execution with the limit itself still inside the budget.
should_stop_execution_Late(cfg, t, started) ==
    IF started = -1 THEN FALSE ELSE t - started > cfg.max_execution_time

should_stop_execution(cfg, t, started) ==
    IF started = -1 THEN FALSE ELSE t - started >= cfg.max_execution_time

\* UseParallel with a working set of exactly the threshold run in parallel.
UseParallel_AtThreshold(cfg, n) == cfg.enable_parallel /\ n >= ParallelThreshold

\* run(): which mode processes the working set.
UseParallel(cfg, n) == cfg.enable_parallel /\ n > ParallelThreshold

\* ---------------------------------------------------------------- the pool
\* Frames whose process_book call has started and not finished.
InFlight == {d \in DocIds : task[d].pc \notin {"none", "queued", "done"}}

\* A pool that starts a thread for every submitted work item.
WorkerFree_Unbounded(cfg, running) == TRUE

\* ThreadPoolExecutor(max_workers): a queued work item starts when one of
\* the max_workers threads is free; the queue is first in, first out.
WorkerFree(cfg, running) == Cardinality(running) < cfg.max_workers

OldestQueued(d) ==
    /\ task[d].pc = "queued"
    /\ \A e \in DocIds : task[e].pc = "queued" => d <= e

\* ---------------------------------------------------------------- process_book
\* The snapshot of document d that the query returned.
Snapshot(d) == docs[CHOOSE i \in 1..Len(docs) : docs[i].id = d].data

\* `self.stats.<counter> += 1` is a read followed by a write; the frame
\* keeps the value read in tmp between the two.
StoreCounter(counter, d) == stats' = [stats EXCEPT ![counter] = task[d].tmp + 1]

\* The faults still to come: a bound on how many calls raise in one run.
CanRaise == fault_budget > 0

\* The except clause of process_book (lines 346-348) is entered: the read
\* half of `self.stats.errors += 1`.
Raise(d) ==
    /\ CanRaise
    /\ fault_budget' = fault_budget - 1
    /\ task' = [task EXCEPT ![d].raised = TRUE, ![d].tmp = stats.errors,
                            ![d].pc = "errors_store"]

\* Lines 293-295: doc.to_dict(), doc.id and the read half of total_scanned += 1.
PB_Begin(d) ==
    /\ task[d].pc = "start"
    /\ \/ task' = [task EXCEPT ![d].book_data = Snapshot(d),
                               ![d].tmp = stats.total_scanned,
                               ![d].pc = "scanned_store"]
          /\ UNCHANGED fault_budget
       \/ Raise(d)
    /\ UNCHANGED <<catalog, remote, config, now, start_time, stats, main_pc,
                   docs, next_doc, reported>>

\* Line 295, the write half.
PB_ScannedStore(d) ==
    /\ task[d].pc = "scanned_store"
    /\ StoreCounter("total_scanned", d)
    /\ task' = [task EXCEPT ![d].tmp = 0, ![d].pc = "link"]
    /\ UNCHANGED <<catalog, remote, config, now, start_time, main_pc, docs,
                   next_doc, reported, fault_budget>>

\* Lines 302-323: the probe, its edits, and the read half of the
\* broken_links / working_links increment.
PB_Link(d) ==
    /\ task[d].pc = "link"
    /\ LET book_data == task[d].book_data IN
       IF Truthy(book_data, "download_url")
       THEN LET res == check_link(book_data["download_url"],
                                  remote[book_data["download_url"]])
            IN task' = [task EXCEPT
                          ![d].probed = TRUE,
                          ![d].link = res,
                          ![d].updates = LinkUpdates(book_data, res),
                          ![d].tmp = IF res.is_working THEN stats.working_links
                                     ELSE stats.broken_links,
                          ![d].pc = "link_store"]
       ELSE task' = [task EXCEPT ![d].updates = EmptyDict, ![d].pc = "reconcile"]
    /\ UNCHANGED <<catalog, remote, config, now, start_time, stats, main_pc,
                   docs, next_doc, reported, fault_budget>>

\* Lines 313 / 317, the write half.
PB_LinkStore(d) ==
    /\ task[d].pc = "link_store"
    /\ StoreCounter(IF task[d].link.is_working THEN "working_links"
                    ELSE "broken_links", d)
    /\ task' = [task EXCEPT ![d].tmp = 0, ![d].pc = "reconcile"]
    /\ UNCHANGED <<catalog, remote, config, now, start_time, main_pc, docs,
                   next_doc, reported, fault_budget>>

\* Lines 325-340: validation, the timestamps, the write to the catalog and
\* the read half of the fixed_records / skipped_records increment; the
\* write to the catalog may raise.  datetime.now() and the server's
\* timestamp are the clock as last read.
PB_Reconcile(d) ==
    /\ task[d].pc = "reconcile"
    /\ LET t == now IN
       LET updates == StampUpdates(MergeValidation(task[d].updates,
                                                   task[d].book_data), t)
       IN /\ UNCHANGED now
          /\ IF HasUpdates(updates)
             THEN \/ /\ catalog' = [catalog EXCEPT
                                       ![d] = ApplyUpdate(catalog[d], updates, t)]
                     /\ task' = [task EXCEPT ![d].updates = updates,
                                             ![d].written = TRUE,
                                             ![d].tmp = stats.fixed_records,
                                             ![d].pc = "fixed_store"]
                     /\ UNCHANGED fault_budget
                  \/ /\ CanRaise
                     /\ fault_budget' = fault_budget - 1
                     /\ task' = [task EXCEPT ![d].updates = updates,
                                             ![d].raised = TRUE,
                                             ![d].tmp = stats.errors,
                                             ![d].pc = "errors_store"]
                     /\ UNCHANGED catalog
             ELSE /\ task' = [task EXCEPT ![d].updates = updates,
                                          ![d].tmp = stats.skipped_records,
                                          ![d].pc = "skipped_store"]
                  /\ UNCHANGED <<catalog, fault_budget>>
    /\ UNCHANGED <<remote, config, start_time, stats, main_pc, docs,
                   next_doc, reported>>

\* Lines 342-344: after the record, process_book sleeps rate_limit_delay
\* only when enable_parallel is off.
AfterRecord(cfg) == IF ~cfg.enable_parallel THEN "sleep" ELSE "done"

\* Line 336 / 340, the write half.
PB_BucketStore(d) ==
    /\ task[d].pc \in {"fixed_store", "skipped_store"}
    /\ StoreCounter(IF task[d].pc = "fixed_store" THEN "fixed_records"
                    ELSE "skipped_records", d)
    /\ task' = [task EXCEPT ![d].tmp = 0, ![d].pc = AfterRecord(config)]
    /\ UNCHANGED <<catalog, remote, config, now, start_time, main_pc, docs,
                   next_doc, reported, fault_budget>>

\* Line 344: time.sleep(rate_limit_delay).
PB_Sleep(d) ==
    /\ task[d].pc = "sleep"
    /\ task' = [task EXCEPT ![d].slept = TRUE, ![d].pc = "done"]
    /\ UNCHANGED <<catalog, remote, config, now, start_time, stats, main_pc,
                   docs, next_doc, reported, fault_budget>>

\* Line 347, the write half.
PB_ErrorsStore(d) ==
    /\ task[d].pc = "errors_store"
    /\ StoreCounter("errors", d)
    /\ task' = [task EXCEPT ![d].tmp = 0, ![d].pc = "done"]
    /\ UNCHANGED <<catalog, remote, config, now, start_time, main_pc, docs,
                   next_doc, reported, fault_budget>>

\* ---------------------------------------------------------------- run
\* Lines 405-425: the clock is read, the working set is fetched (the
\* query may raise: a run-level fault, re-raised by run), an empty working
\* set returns at once, otherwise the mode is chosen.
Run_Start ==
    /\ main_pc = "idle"
    /\ start_time' = now
    /\ UNCHANGED now
    /\ \/ /\ main_pc' = "raised"
          /\ UNCHANGED <<docs, next_doc, task>>
       \/ LET ids == QueryIds(catalog, config, now) IN
          /\ docs' = [i \in 1..Len(ids) |-> [id |-> ids[i], data |-> catalog[ids[i]]]]
          /\ next_doc' = 1
          /\ task' = [d \in DocIds |-> NewTask]
          /\ main_pc' = IF Len(ids) = 0 THEN "returned"
                        ELSE IF UseParallel(config, Len(ids)) THEN "parallel"
                        ELSE "serial"
    /\ UNCHANGED <<catalog, remote, config, stats, reported, fault_budget>>

\* DeadlineBreak setting the flag and handing the record out all the same.
DeadlineBreak_StillDispatches(t, after) ==
    /\ should_stop_execution(config, t, start_time)
    /\ stats' = [stats EXCEPT !.timeout_stop = TRUE]
    /\ task' = [task EXCEPT ![docs[next_doc].id].pc = "start"]
    /\ next_doc' = next_doc + 1
    /\ UNCHANGED main_pc

\* DeadlineBreak leaving the loop without setting the flag.
DeadlineBreak_Silent(t, after) ==
    /\ should_stop_execution(config, t, start_time)
    /\ main_pc' = after
    /\ UNCHANGED <<stats, next_doc, task>>

\* The deadline check that opens each iteration of both loops; when it
\* fires it sets stats.timeout_stop and the loop breaks to `after`.
DeadlineBreak(t, after) ==
    /\ should_stop_execution(config, t, start_time)
    /\ stats' = [stats EXCEPT !.timeout_stop = TRUE]
    /\ main_pc' = after
    /\ UNCHANGED <<next_doc, task>>

\* run_serial, one iteration: the deadline check, then process_book is
\* called; the loop goes on when the call has returned.
Serial_Dispatch ==
    /\ main_pc = "serial"
    /\ InFlight = {}
    /\ next_doc <= Len(docs)
    /\ \E t \in ClockReadings :
          /\ now' = t
          /\ \/ DeadlineBreak(t, "finish")
             \/ /\ ~should_stop_execution(config, t, start_time)
                /\ task' = [task EXCEPT ![docs[next_doc].id].pc = "start"]
                /\ next_doc' = next_doc + 1
                /\ UNCHANGED <<stats, main_pc>>
    /\ UNCHANGED <<catalog, remote, config, start_time, docs, reported, fault_budget>>

\* run_serial: the list is exhausted.
Serial_End ==
    /\ main_pc = "serial"
    /\ InFlight = {}
    /\ next_doc > Len(docs)
    /\ main_pc' = "finish"
    /\ UNCHANGED <<catalog, remote, config, now, start_time, stats, docs,
                   next_doc, task, reported, fault_budget>>

\* run_parallel, one iteration of the submit loop (lines 376-384).
Parallel_Submit ==
    /\ main_pc = "parallel"
    /\ next_doc <= Len(docs)
    /\ \E t \in ClockReadings :
          /\ now' = t
          /\ \/ DeadlineBreak(t, "join")
             \/ /\ ~should_stop_execution(config, t, start_time)
                /\ task' = [task EXCEPT ![docs[next_doc].id].pc = "queued"]
                /\ next_doc' = next_doc + 1
                /\ UNCHANGED <<stats, main_pc>>
    /\ UNCHANGED <<catalog, remote, config, start_time, docs, reported, fault_budget>>

\* run_parallel: every record has been submitted.
Parallel_LoopEnd ==
    /\ main_pc = "parallel"
    /\ next_doc > Len(docs)
    /\ main_pc' = "join"
    /\ UNCHANGED <<catalog, remote, config, now, start_time, stats, docs,
                   next_doc, task, reported, fault_budget>>

\* A pool thread takes the oldest queued work item.
Worker_Start(d) ==
    /\ OldestQueued(d)
    /\ WorkerFree(config, InFlight)
    /\ task' = [task EXCEPT ![d].pc = "start"]
    /\ UNCHANGED <<catalog, remote, config, now, start_time, stats, main_pc,
                   docs, next_doc, reported, fault_budget>>

\* A pool that is left without waiting for its work items.
AllFuturesDone_NoWait == TRUE

\* as_completed(futures) is exhausted and executor.shutdown(wait=True)
\* has returned: no submitted work item is queued or running.
AllFuturesDone == \A d \in DocIds : task[d].pc \in {"none", "done"}

\* Lines 386-392 and the exit of the `with` block: every future has
\* completed.  process_book catches every Exception, so future.result()
\* does not raise.
Parallel_Join ==
    /\ main_pc = "join"
    /\ AllFuturesDone
    /\ main_pc' = "finish"
    /\ UNCHANGED <<catalog, remote, config, now, start_time, stats, docs,
                   next_doc, task, reported, fault_budget>>

\* Lines 427-434: the clock is read for the execution time, then
\* print_report, return stats.
Run_Finish ==
    /\ main_pc = "finish"
    /\ \E t \in ClockReadings : now' = t
    /\ reported' = TRUE
    /\ main_pc' = "returned"
    /\ UNCHANGED <<catalog, remote, config, start_time, stats, docs,
                   next_doc, task, fault_budget>>

\* ---------------------------------------------------------------- records of the initial catalogs
Absent(f) ==
    IF f \in TextFields THEN <<"-">>
    ELSE IF f = "last_checked" THEN -1 ELSE "-"

\* A record from a value per field, Absent(f) standing for a missing field.
MakeBook(raw) == [f \in {g \in DOMAIN raw : raw[g] # Absent(g)} |-> raw[f]]

Book(url, status, err, title, cat, checked) ==
    MakeBook([download_url |-> url, status |-> status, error_message |-> err,
              bangla_title |-> title, category |-> cat, last_checked |-> checked])

UrlOk == "http://ok"
UrlGone == "http://gone"

\* Records of the run-level catalogs.
GoodBook(checked) == Book(UrlOk, PUBLISHED, "-", <<"t">>, "c", checked)
GoneBook(checked) == Book(UrlGone, PUBLISHED, "-", <<"t">>, "c", checked)
RepairedBook(checked) == Book(UrlOk, BROKEN, "Status code: 404", <<"t">>, "c", checked)
NoUrlBook(checked) == Book("", PUBLISHED, "-", <<"t">>, "c", checked)

\* The record stored under id d, last checked at `checked`.
RunBook(d, checked) ==
    CASE d = 1 -> GoneBook(checked)
      [] d = 2 -> RepairedBook(checked)
      [] d = 3 -> NoUrlBook(checked)
      [] OTHER -> GoodBook(checked)

\* The catalogs of the run-level specification: the first `stale` records
\* were last checked at time 0, the others when the run starts.
RunCatalogs ==
    { [d \in 1..NumDocs |-> RunBook(d, IF d <= stale THEN 0 ELSE FirstNow)] :
        stale \in {0, 1, 2, ParallelThreshold, NumDocs} }

RunRemote == [u \in {UrlOk, UrlGone} |->
                IF u = UrlOk THEN HeadResponse(200) ELSE HeadResponse(404)]

RunConfigs ==
    [enable_parallel : BOOLEAN, max_workers : {2}, enable_smart_filter : {TRUE},
     check_interval_days : {1}, batch_size : {0}, max_execution_time : {1}]

\* ---------------------------------------------------------------- specification
Init ==
    /\ catalog \in RunCatalogs
    /\ remote = RunRemote
    /\ config \in RunConfigs
    /\ now = FirstNow
    /\ start_time = -1
    /\ stats = NewStats
    /\ main_pc = "idle"
    /\ docs = <<>>
    /\ next_doc = 1
    /\ task = [d \in DOMAIN catalog |-> NewTask]
    /\ reported = FALSE
    /\ fault_budget = MaxFaults

Next ==
    \/ Run_Start
    \/ Serial_Dispatch
    \/ Serial_End
    \/ Parallel_Submit
    \/ Parallel_LoopEnd
    \/ Parallel_Join
    \/ Run_Finish
    \/ \E d \in DocIds :
          \/ Worker_Start(d)
          \/ PB_Begin(d)
          \/ PB_ScannedStore(d)
          \/ PB_Link(d)
          \/ PB_LinkStore(d)
          \/ PB_Reconcile(d)
          \/ PB_BucketStore(d)
          \/ PB_Sleep(d)
          \/ PB_ErrorsStore(d)

Spec == Init /\ [][Next]_vars

\* ---------------------------------------------------------------- one record, every shape
\* The records of the per-record specification: each field missing,
\* empty or set, the text fields with and without surrounding blanks.
BookShapes ==
    { MakeBook([download_url |-> url, status |-> st, error_message |-> err,
                bangla_title |-> bt, english_title |-> et, author |-> au,
                category |-> cat, last_checked |-> lc]) :
        url \in {"-", "", UrlOk},
        st \in {"-", "", PUBLISHED, BROKEN, SCHEDULED},
        err \in {"-", "Status code: 404"},
        bt \in {<<"-">>, <<>>, <<" ">>, <<"t">>, <<" ", "t", " ">>},
        et \in {<<"-">>, <<"e", " ">>},
        au \in {<<"-">>, <<" ", "a">>},
        cat \in {"-", "", "c"},
        lc \in {-1, 0} }

\* What the host may answer for the record's URL.
HeadResults ==
    {HeadResponse(200), HeadResponse(204), HeadResponse(404), HeadTimeout}

BookConfigs ==
    [enable_parallel : BOOLEAN, max_workers : {2}, enable_smart_filter : {FALSE},
     check_interval_days : {1}, batch_size : {0}, max_execution_time : {1}]

InitBook ==
    /\ catalog \in {[d \in {1} |-> b] : b \in BookShapes}
    /\ remote \in {[u \in {UrlOk} |-> h] : h \in HeadResults}
    /\ config \in BookConfigs
    /\ now = FirstNow
    /\ start_time = -1
    /\ stats = NewStats
    /\ main_pc = "idle"
    /\ docs = <<>>
    /\ next_doc = 1
    /\ task = [d \in DOMAIN catalog |-> NewTask]
    /\ reported = FALSE
    /\ fault_budget = MaxFaults

NextBook ==
    \/ Run_Start
    \/ Serial_Dispatch
    \/ Serial_End
    \/ Run_Finish
    \/ \E d \in DocIds :
          \/ PB_Begin(d)
          \/ PB_ScannedStore(d)
          \/ PB_Link(d)
          \/ PB_LinkStore(d)
          \/ PB_Reconcile(d)
          \/ PB_BucketStore(d)
          \/ PB_Sleep(d)
          \/ PB_ErrorsStore(d)

SpecBook == InitBook /\ [][NextBook]_vars

\* ---------------------------------------------------------------- one parallel run, any fault
\* A parallel run over a catalog whose records are all stale, in which the
\* step of every record may raise; the run is over before the clock moves.
\* One more call may raise than in the mixed runs, so that the except
\* clauses of two worker threads can meet.
PoolFaults == MaxFaults + 1

PoolCatalog == [d \in 1..NumDocs |-> RunBook(d, 0)]

PoolConfigs ==
    [enable_parallel : {TRUE}, max_workers : {2}, enable_smart_filter : {TRUE},
     check_interval_days : {1}, batch_size : {0}, max_execution_time : {1}]

InitPool ==
    /\ catalog = PoolCatalog
    /\ remote = RunRemote
    /\ config \in PoolConfigs
    /\ now = FirstNow + MaxTime
    /\ start_time = -1
    /\ stats = NewStats
    /\ main_pc = "idle"
    /\ docs = <<>>
    /\ next_doc = 1
    /\ task = [d \in DOMAIN catalog |-> NewTask]
    /\ reported = FALSE
    /\ fault_budget = PoolFaults

NextPool ==
    \/ Run_Start
    \/ Parallel_Submit
    \/ Parallel_LoopEnd
    \/ Parallel_Join
    \/ Run_Finish
    \/ \E d \in DocIds :
          \/ Worker_Start(d)
          \/ PB_Begin(d)
          \/ PB_ScannedStore(d)
          \/ PB_Link(d)
          \/ PB_LinkStore(d)
          \/ PB_Reconcile(d)
          \/ PB_BucketStore(d)
          \/ PB_ErrorsStore(d)

SpecPool == InitPool /\ [][NextPool]_vars

\* ---------------------------------------------------------------- the Validator alone
\* The records handed to validate_book: every field missing, empty or
\* set, the text fields blank, padded on either side or with an inner blank.
ValidatorTexts ==
    {<<"-">>, <<>>, <<" ">>, <<" ", " ">>, <<"t">>, <<" ", "t">>, <<"t", " ">>,
     <<" ", " ", "t", " ">>, <<"t", " ", "t">>}

ValidatorShapes ==
    { MakeBook([download_url |-> url, status |-> st, bangla_title |-> bt,
                english_title |-> et, author |-> au, category |-> cat]) :
        url \in {"-", "", UrlOk},
        st \in {"-", "", BROKEN, SCHEDULED},
        bt \in ValidatorTexts,
        et \in {<<"-">>, <<>>, <<" ", " ", "e">>, <<"e">>},
        au \in {<<"-">>, <<" ">>, <<"a", " ", " ">>},
        cat \in {"-", "", " ", "c"} }

InitValidator ==
    /\ catalog \in {[d \in {1} |-> b] : b \in ValidatorShapes}
    /\ remote = RunRemote
    /\ config \in {c \in BookConfigs : ~c.enable_parallel}
    /\ now = FirstNow
    /\ start_time = -1
    /\ stats = NewStats
    /\ main_pc = "idle"
    /\ docs = <<>>
    /\ next_doc = 1
    /\ task = [d \in DOMAIN catalog |-> NewTask]
    /\ reported = FALSE
    /\ fault_budget = 0

\* validator.validate_book(book_data) on the record as it is stored now:
\* the first call, or a call after the edits of the call before were applied.
Validator_Call(d) ==
    /\ task[d].pc \in {"none", "applied", "revalidated"}
    /\ task' = [task EXCEPT
                  ![d].book_data = catalog[d],
                  ![d].updates = validate_book(catalog[d]),
                  ![d].pc = IF task[d].pc = "none" THEN "validated"
                            ELSE "revalidated"]
    /\ UNCHANGED <<catalog, remote, config, now, start_time, stats, main_pc,
                   docs, next_doc, reported, fault_budget>>

\* The edits validate_book returned are written to the record.
Validator_Apply(d) ==
    /\ task[d].pc \in {"validated", "revalidated"}
    /\ catalog' = [catalog EXCEPT ![d] = ApplyUpdate(catalog[d], task[d].updates, now)]
    /\ task' = [task EXCEPT
                  ![d].written = task[d].written \/ HasUpdates(task[d].updates),
                  ![d].pc = "applied"]
    /\ UNCHANGED <<remote, config, now, start_time, stats, main_pc, docs,
                   next_doc, reported, fault_budget>>

NextValidator ==
    \E d \in DocIds :
        \/ Validator_Call(d)
        \/ Validator_Apply(d)

SpecValidator == InitValidator /\ [][NextValidator]_vars

\* ---------------------------------------------------------------- run after run
\* The scheduled job starts main() again and again on the same catalog:
\* every run is a new process with a new FixerBot, at the clock's reading
\* then.  The runs are serial, with and without the staleness filter and
\* the batch cap.
RunsCatalogs ==
    { [d \in {1, 2, 3} |-> RunBook(d, checked[d])] :
        checked \in [{1, 2, 3} -> {-1, 0, FirstNow}] }

RunsConfigs ==
    [enable_parallel : {FALSE}, max_workers : {2}, enable_smart_filter : BOOLEAN,
     check_interval_days : {0, 1}, batch_size : {0, 2}, max_execution_time : {1}]

InitRuns ==
    /\ catalog \in RunsCatalogs
    /\ remote = RunRemote
    /\ config \in RunsConfigs
    /\ now = FirstNow
    /\ start_time = -1
    /\ stats = NewStats
    /\ main_pc = "idle"
    /\ docs = <<>>
    /\ next_doc = 1
    /\ task = [d \in DOMAIN catalog |-> NewTask]
    /\ reported = FALSE
    /\ fault_budget = MaxFaults

\* ExitCode with a run stopped by the deadline treated as a failure.
ExitCode_TimeoutFails(st) == IF st.errors > 0 \/ st.timeout_stop THEN 1 ELSE 0

\* Lines 491-496 of main: the exit code for the stats that run returned.
ExitCode(st) == IF st.errors > 0 THEN 1 ELSE 0

\* Where main() is after exit(code).
Exited(code) == IF code = 0 THEN "exit_0" ELSE "exit_1"

\* Lines 488-503 of main: run has returned its stats, or it has raised
\* and the except clause of main exits with 1.
Main_Exit ==
    /\ main_pc \in {"returned", "raised"}
    /\ main_pc' = IF main_pc = "raised" THEN Exited(1) ELSE Exited(ExitCode(stats))
    /\ UNCHANGED <<catalog, remote, config, now, start_time, stats, docs,
                   next_doc, task, reported, fault_budget>>

\* main() is started again after the process before it has exited: a new
\* FixerBot and new FixerStats; the catalog and the configuration are
\* the same.
Main_NewRun ==
    /\ main_pc \in {Exited(0), Exited(1)}
    /\ \E t \in ClockReadings : now' = t
    /\ start_time' = -1
    /\ stats' = NewStats
    /\ main_pc' = "idle"
    /\ docs' = <<>>
    /\ next_doc' = 1
    /\ task' = [d \in DocIds |-> NewTask]
    /\ reported' = FALSE
    /\ fault_budget' = MaxFaults
    /\ UNCHANGED <<catalog, remote, config>>

NextRuns ==
    \/ Main_NewRun
    \/ Main_Exit
    \/ Run_Start
    \/ Serial_Dispatch
    \/ Serial_End
    \/ Run_Finish
    \/ \E d \in DocIds :
          \/ PB_Begin(d)
          \/ PB_ScannedStore(d)
          \/ PB_Link(d)
          \/ PB_LinkStore(d)
          \/ PB_Reconcile(d)
          \/ PB_BucketStore(d)
          \/ PB_Sleep(d)
          \/ PB_ErrorsStore(d)

SpecRuns == InitRuns /\ [][NextRuns]_vars

\* ---------------------------------------------------------------- the LinkChecker alone
\* create_session: the statuses the transport retries on.
status_forcelist == {429, 500, 502, 503, 504}

\* What one HEAD attempt can meet on the wire (redirects followed).
RawAnswers ==
    {HeadResponse(200), HeadResponse(204), HeadResponse(301), HeadResponse(404),
     HeadResponse(429), HeadResponse(503), HeadTimeout, HeadConnectionError,
     HeadOtherError}

\* urllib3 Retry: an attempt that is tried again while retries are left.
Retryable(a) ==
    \/ a.kind = "response" /\ a.status_code \in status_forcelist
    \/ a.kind \in {"Timeout", "ConnectionError"}

\* What session.head() ends with when the retries are used up on answer
\* a: requests raises RetryError for a status of the force list, and a
\* timeout or a connection error for an attempt that timed out.
ExhaustedAs(a) ==
    IF a.kind = "response" THEN {HeadOtherError}
    ELSE IF a.kind = "Timeout" THEN {HeadTimeout, HeadConnectionError}
    ELSE {HeadConnectionError}

\* NeedsRequest with the HEAD request sent for any url.
NeedsRequest_Always(url) == TRUE

\* Line 187, `if not url`: only a non-empty url is requested.
NeedsRequest(url) == url # ""

\* The url argument of a record: None and '' are both falsy.
UrlOf(rec) == IF "download_url" \in DOMAIN rec THEN rec["download_url"] ELSE ""

LinkShapes ==
    { MakeBook([download_url |-> url, status |-> PUBLISHED]) :
        url \in {"-", "", UrlOk, UrlGone} }

LinkConfigs ==
    [retry_attempts : {1, 2, 3}, enable_parallel : {FALSE}, max_workers : {2},
     enable_smart_filter : {FALSE}, check_interval_days : {1}, batch_size : {0},
     max_execution_time : {1}]

InitLink ==
    /\ catalog \in {[d \in {1} |-> b] : b \in LinkShapes}
    /\ remote = RunRemote
    /\ config \in LinkConfigs
    /\ now = FirstNow
    /\ start_time = -1
    /\ stats = NewStats
    /\ main_pc = "idle"
    /\ docs = <<>>
    /\ next_doc = 1
    /\ task = [d \in DOMAIN catalog |-> NewTask]
    /\ reported = FALSE
    /\ fault_budget = 0

\* Lines 186-188: check_link(url) is called; a falsy url returns at once.
Check_Call(d) ==
    /\ task[d].pc = "none"
    /\ LET url == UrlOf(catalog[d]) IN
       IF NeedsRequest(url)
       THEN task' = [task EXCEPT ![d].book_data = catalog[d], ![d].pc = "head"]
       ELSE task' = [task EXCEPT ![d].book_data = catalog[d],
                                 ![d].link = check_link("", HeadOtherError),
                                 ![d].pc = "done"]
    /\ UNCHANGED <<catalog, remote, config, now, start_time, stats, main_pc,
                   docs, next_doc, reported, fault_budget>>

\* Lines 190-210: one attempt of session.head(); the transport tries
\* again while retries are left, otherwise check_link returns what the
\* final response or the raised exception is converted to.
Session_Head(d) ==
    /\ task[d].pc = "head"
    /\ \E a \in RawAnswers :
          LET url == UrlOf(task[d].book_data)
              sent == [task EXCEPT ![d].probed = TRUE,
                                   ![d].attempts = task[d].attempts + 1]
              retries_left == task[d].attempts < config.retry_attempts
          IN IF Retryable(a) /\ retries_left
             THEN task' = sent
             ELSE \E final \in (IF Retryable(a) THEN ExhaustedAs(a) ELSE {a}) :
                     task' = [sent EXCEPT ![d].link = check_link(url, final),
                                          ![d].pc = "done"]
    /\ UNCHANGED <<catalog, remote, config, now, start_time, stats, main_pc,
                   docs, next_doc, reported, fault_budget>>

NextLink ==
    \E d \in DocIds :
        \/ Check_Call(d)
        \/ Session_Head(d)

SpecLink == InitLink /\ [][NextLink]_vars

\* ================================================================ properties
\* The frame of d has merged its whole edit set (the timestamps come last).
Built(d) == "last_checked" \in DOMAIN task[d].updates

\* process_book(d) ran to its end without entering the except clause.
Completed(d) == task[d].pc = "done" /\ ~task[d].raised

\* The probe of d ran and found the link reachable / unreachable.
Reachable(d) == task[d].probed /\ task[d].link.is_working
Unreachable(d) == task[d].probed /\ ~task[d].link.is_working

\* The stored status read by process_book is `broken`.
WasBroken(d) ==
    "status" \in DOMAIN task[d].book_data /\ task[d].book_data["status"] = BROKEN

\* The records handed to process_book or to the pool so far.
Dispatched == {d \in DocIds : task[d].pc # "none"}

\* C1: at the end of every run, fixed_records + skipped_records + errors
\* equals total_scanned.
C1_BucketsAddUp ==
    main_pc = "returned" =>
        stats.fixed_records + stats.skipped_records + stats.errors
            = stats.total_scanned

\* C2: a record with a non-empty download_url whose probe ends unreachable
\* is left, by the update process_book writes, with status = broken and
\* error_message equal to the probe detail, whatever its other fields are.
C2_UnreachableIsBroken ==
    \A d \in DocIds :
        (task[d].written /\ Unreachable(d)) =>
            /\ "status" \in DOMAIN catalog[d]
            /\ catalog[d]["status"] = BROKEN
            /\ "error_message" \in DOMAIN catalog[d]
            /\ catalog[d]["error_message"] = task[d].link.error_msg
            /\ catalog[d]["error_message"] # ""

\* status = broken implies error_message present; status # broken implies
\* error_message absent.
ErrorMessageInvariant(rec) ==
    LET broken == "status" \in DOMAIN rec /\ rec["status"] = BROKEN
    IN broken <=> "error_message" \in DOMAIN rec

\* C3: a record that satisfied the status / error_message invariant still
\* satisfies it after process_book has reconciled it.
C3_ErrorMessageInvariantKept ==
    \A d \in DocIds :
        (task[d].written /\ ErrorMessageInvariant(task[d].book_data)) =>
            ErrorMessageInvariant(catalog[d])

\* C4 as stated: for a reachable link and a stored status that is not
\* broken (any other value, missing or empty), the edit set has no status key.
C4_NoStatusEdit_Original ==
    \A d \in DocIds :
        (Built(d) /\ Reachable(d) /\ ~WasBroken(d)) =>
            "status" \notin DOMAIN task[d].updates

\* C4, amended: for a reachable link and a stored status that is non-empty
\* and not broken, the edit set has no status key.
C4_NoStatusEdit ==
    \A d \in DocIds :
        (Built(d) /\ Reachable(d) /\ ~WasBroken(d)
                  /\ Truthy(task[d].book_data, "status")) =>
            "status" \notin DOMAIN task[d].updates

C4_Witness ==
    \E d \in DocIds :
        /\ Built(d) /\ Reachable(d) /\ task[d].written
        /\ Truthy(task[d].book_data, "status")
        /\ task[d].book_data["status"] = SCHEDULED
        /\ "status" \notin DOMAIN task[d].updates
        /\ catalog[d]["status"] = SCHEDULED

\* C5: for a record stored as broken whose link is reachable, the update
\* sets status = published and deletes error_message, and the record has
\* no error_message after the write.
C5_BrokenRepaired ==
    \A d \in DocIds :
        (task[d].written /\ Reachable(d) /\ WasBroken(d)) =>
            /\ task[d].updates["status"] = SetTo(PUBLISHED)
            /\ "error_message" \in DOMAIN task[d].book_data =>
                  /\ "error_message" \in DOMAIN task[d].updates
                  /\ task[d].updates["error_message"] = DELETE_FIELD
            /\ catalog[d]["status"] = PUBLISHED
            /\ "error_message" \notin DOMAIN catalog[d]

C5_Witness ==
    \E d \in DocIds :
        /\ task[d].written /\ Reachable(d) /\ WasBroken(d)
        /\ "error_message" \in DOMAIN task[d].book_data
        /\ catalog[d]["status"] = PUBLISHED
        /\ "error_message" \notin DOMAIN catalog[d]

\* C6: for a record whose download_url is absent or empty, the edit set
\* includes status = broken and error_message = "URL missing".
C6_MissingUrlIsBroken ==
    \A d \in DocIds :
        (Built(d) /\ ~Truthy(task[d].book_data, "download_url")) =>
            /\ "status" \in DOMAIN task[d].updates
            /\ task[d].updates["status"] = SetTo(BROKEN)
            /\ "error_message" \in DOMAIN task[d].updates
            /\ task[d].updates["error_message"] = SetTo("URL missing")

\* C7: a record that needs no corrective edit (link reachable, stored
\* status not broken, validate_book empty) is counted in skipped_records
\* and not in fixed_records.
C7_NoEditIsSkipped ==
    \A d \in DocIds :
        (Completed(d) /\ Reachable(d) /\ ~WasBroken(d)
                      /\ validate_book(task[d].book_data) = EmptyDict
                      /\ Cardinality(Dispatched) = 1) =>
            /\ stats.skipped_records = 1
            /\ stats.fixed_records = 0

\* C8: every record whose processing step ran to completion without a
\* fault has last_checked and last_fixer_run set by that step, whether or
\* not there was a corrective edit.
C8_AlwaysStamped ==
    \A d \in DocIds :
        Completed(d) =>
            /\ "last_checked" \in DOMAIN catalog[d]
            /\ catalog[d]["last_checked"] >= start_time
            /\ "last_fixer_run" \in DOMAIN catalog[d]
            /\ catalog[d]["last_fixer_run"] >= start_time

\* A completed record for which neither the probe nor the validator
\* proposed an edit, stamped all the same.
C8_Witness ==
    \E d \in DocIds :
        /\ Completed(d) /\ Reachable(d) /\ ~WasBroken(d)
        /\ validate_book(task[d].book_data) = EmptyDict
        /\ DOMAIN task[d].updates = {"last_checked", "last_fixer_run"}
        /\ catalog[d]["last_checked"] >= start_time

\* A step of the loop of run_serial or run_parallel that reaches the
\* deadline check.
LoopStep ==
    /\ main_pc \in {"serial", "parallel"}
    /\ next_doc <= Len(docs)
    /\ next_doc' # next_doc \/ main_pc' # main_pc

\* C9: in both modes the elapsed time is checked before each record is
\* dispatched; a check that finds max_execution_time reached dispatches
\* nothing and sets timeout_stop, a record is dispatched only by a check
\* that finds it not reached, once timeout_stop is set no record is
\* dispatched any more, and the run does not end in an error.
C9_DeadlineStopsDispatch ==
    [][ /\ (LoopStep /\ now' - start_time >= config.max_execution_time) =>
              (stats'.timeout_stop /\ Dispatched' = Dispatched)
        /\ Dispatched' # Dispatched =>
              (LoopStep /\ now' - start_time < config.max_execution_time)
        /\ stats.timeout_stop =>
              /\ Dispatched' = Dispatched
              /\ stats'.timeout_stop
              /\ main_pc' \notin {"serial", "parallel", "raised"} ]_vars

\* A parallel run stopped by the deadline with records left undispatched,
\* returned with its report.
C9_Witness ==
    /\ UseParallel(config, Len(docs))
    /\ stats.timeout_stop
    /\ main_pc = "returned"
    /\ reported
    /\ Dispatched # {}
    /\ \E i \in 1..Len(docs) : docs[i].id \notin Dispatched

\* C10: in parallel mode at most max_workers processing steps are in
\* flight at any moment, however many records have been submitted.
C10_InFlightBounded ==
    UseParallel(config, Len(docs)) => Cardinality(InFlight) <= config.max_workers

\* The pool is full while further submitted records wait.
C10_Witness ==
    /\ main_pc \in {"parallel", "join"}
    /\ Cardinality(InFlight) = config.max_workers
    /\ Cardinality({d \in DocIds : task[d].pc = "queued"}) > 1

\* The position in docs of the record the serial loop handed out last.
SerialCurrent == next_doc - 1

\* C11: run uses parallel mode exactly when enable_parallel is true and the
\* working set has more than 5 records; in every other case the records
\* are processed strictly one at a time, in the order of the working set:
\* a record's step starts only after the step of the one before is done.
C11_ModeChoice ==
    LET wantsParallel == config.enable_parallel /\ Len(docs) > ParallelThreshold
    IN /\ main_pc \in {"parallel", "join"} => wantsParallel
       /\ main_pc = "serial" => ~wantsParallel
       /\ (\E d \in DocIds : task[d].pc = "queued") => wantsParallel
       /\ ~wantsParallel =>
             /\ Cardinality(InFlight) <= 1
             /\ \A i \in 1..Len(docs) :
                   /\ i < SerialCurrent => task[docs[i].id].pc = "done"
                   /\ i > SerialCurrent => task[docs[i].id].pc = "none"

\* A working set of exactly the threshold with parallel mode enabled, in
\* the serial loop, its third record in flight after the first two are done.
C11_Witness ==
    /\ config.enable_parallel
    /\ Len(docs) = ParallelThreshold
    /\ main_pc = "serial"
    /\ SerialCurrent = 3
    /\ InFlight = {docs[3].id}
    /\ task[docs[1].id].pc = "done" /\ task[docs[2].id].pc = "done"

\* The records whose step entered the except clause of process_book.
Faulted == {d \in DocIds : task[d].raised}

\* C12: a fault raised while a record is processed is caught inside that
\* record's step and adds one to errors; it does not abort the run: when
\* run has returned, every dispatched record has been processed to its
\* end and errors counts the faulted records.
C12_FaultIsolated ==
    /\ main_pc = "raised" => Dispatched = {}
    /\ main_pc = "returned" =>
          /\ \A d \in Dispatched : task[d].pc = "done"
          /\ stats.errors = Cardinality(Faulted)

\* C13: in a parallel run with no faults, for every interleaving of the
\* worker threads the run ends with total_scanned equal to the number of
\* records dispatched, and working_links, broken_links and fixed_records
\* equal to the number of records that took the corresponding branch.
C13_CountersExact ==
    (main_pc = "returned" /\ UseParallel(config, Len(docs)) /\ Faulted = {}) =>
        /\ stats.total_scanned = Cardinality(Dispatched)
        /\ stats.working_links = Cardinality({d \in DocIds : Reachable(d)})
        /\ stats.broken_links = Cardinality({d \in DocIds : Unreachable(d)})
        /\ stats.fixed_records = Cardinality({d \in DocIds : task[d].written})

\* C14: at the end of every run, working_links + broken_links + errors is
\* at most total_scanned, also when the catalog write of a record fails
\* after its link was classified.
C14_ClassifiedWithinScanned ==
    main_pc = "returned" =>
        stats.working_links + stats.broken_links + stats.errors
            <= stats.total_scanned

\* C15: a record with an absent or empty download_url is counted as
\* unreachable: processing it adds one to broken_links and nothing to
\* working_links.
C15_MissingUrlCounted ==
    \A d \in DocIds :
        (Completed(d) /\ ~Truthy(task[d].book_data, "download_url")
                      /\ Cardinality(Dispatched) = 1) =>
            /\ stats.broken_links = 1
            /\ stats.working_links = 0

\* C16: for every record, once the edits validate_book returned have been
\* applied to it, validate_book returns an empty map, on that call and on
\* every later one (a record that needed no edit included).
C16_ValidatorIdempotent ==
    \A d \in DocIds :
        /\ task[d].pc = "revalidated" => task[d].updates = EmptyDict
        /\ task[d].pc = "applied" => validate_book(catalog[d]) = EmptyDict

\* A record whose category was missing and whose title was padded on both
\* sides: its edits were applied and the next call returned nothing.
C16_Witness ==
    \E d \in DocIds :
        /\ task[d].pc = "revalidated"
        /\ task[d].written
        /\ task[d].updates = EmptyDict
        /\ {"category", "bangla_title", "author"} \subseteq DOMAIN catalog[d]
        /\ catalog[d]["category"] = default_category
        /\ catalog[d]["bangla_title"] = <<"t">>
        /\ catalog[d]["author"] = <<"a">>

\* The required fields that the Validator is to leave non-empty.
RequiredText == {"bangla_title", "category", "status"}

\* C17: after a record has been reconciled by process_book, each of
\* bangla_title, category and status is non-empty, whatever the record
\* held before (bangla_title missing, empty or blank included).
C17_RequiredNonEmpty ==
    \A d \in DocIds :
        task[d].written =>
            \A f \in RequiredText :
                /\ Truthy(catalog[d], f)
                /\ f \in TextFields => Strip(catalog[d][f]) # <<>>

\* C18: after a record has been reconciled by process_book, none of
\* bangla_title, english_title and author starts or ends with whitespace.
C18_TextTrimmed ==
    \A d \in DocIds :
        task[d].written =>
            \A f \in TextFields :
                (f \in DOMAIN catalog[d] /\ catalog[d][f] # <<>>) =>
                    /\ ~IsSpace(Head(catalog[d][f]))
                    /\ ~IsSpace(catalog[d][f][Len(catalog[d][f])])

\* A record whose three text fields were padded, written back trimmed.
C18_Witness ==
    \E d \in DocIds :
        /\ task[d].written
        /\ TextFields \subseteq DOMAIN task[d].book_data
        /\ task[d].book_data["bangla_title"] = <<" ", "t", " ">>
        /\ task[d].book_data["english_title"] = <<"e", " ">>
        /\ task[d].book_data["author"] = <<" ", "a">>
        /\ catalog[d]["bangla_title"] = <<"t">>
        /\ catalog[d]["english_title"] = <<"e">>
        /\ catalog[d]["author"] = <<"a">>

\* C19: every change of a record's status that a run writes is between
\* published and broken; a record stored with any other status
\* (scheduled, draft, pending, archived) keeps it.
C19_OnlyPublishedBroken ==
    \A d \in DocIds :
        (task[d].written /\ Truthy(task[d].book_data, "status")) =>
            \/ catalog[d]["status"] = task[d].book_data["status"]
            \/ {task[d].book_data["status"], catalog[d]["status"]}
                  = {PUBLISHED, BROKEN}

\* C20: a run writes no field of a record it did not verify (one left out
\* by the staleness filter or the batch cap, or left undispatched after
\* the deadline), and the last_checked of a record never decreases, run
\* after run.
C20_UnverifiedUntouched ==
    [][ \A d \in DocIds :
          /\ d \notin Dispatched' => catalog'[d] = catalog[d]
          /\ "last_checked" \in DOMAIN catalog[d] =>
                /\ "last_checked" \in DOMAIN catalog'[d]
                /\ catalog'[d]["last_checked"] >= catalog[d]["last_checked"] ]_vars

\* A later run under the filter and a batch cap of 2 has returned: the
\* first two records, verified by the run before, were left out as fresh
\* and are as that run wrote them; the third, cut by the cap then, has
\* been verified now.
C20_Witness ==
    /\ main_pc = "returned"
    /\ config.enable_smart_filter /\ config.batch_size = 2
    /\ Len(docs) = 1 /\ docs[1].id = 3
    /\ task[3].written
    /\ task[1].pc = "none" /\ task[2].pc = "none"
    /\ "last_fixer_run" \in DOMAIN catalog[1]
    /\ "last_fixer_run" \in DOMAIN catalog[2]
    /\ catalog[3]["last_checked"] >= catalog[1]["last_checked"]

\* The ids of the working set the query of this run returned.
WorkingSet == {docs[i].id : i \in 1..Len(docs)}

\* The query of this run has been answered and no record written since.
QueryAnswered ==
    start_time # -1 /\ main_pc \notin {"idle", "raised"} /\ Dispatched = {}

\* C21: with smart filtering on (and no batch cap) the working set of a
\* run holds every record never checked (last_checked absent) and every
\* record checked before the cutoff, and no record checked since.
C21_StaleSelected ==
    (QueryAnswered /\ config.enable_smart_filter /\ config.batch_size = 0) =>
        \A d \in DocIds :
            d \in WorkingSet <=>
                \/ "last_checked" \notin DOMAIN catalog[d]
                \/ catalog[d]["last_checked"]
                      < start_time - config.check_interval_days

\* C22: main exits with a non-success code whenever the stats that run
\* returned have errors > 0, and with the success code only when the run
\* returned with errors = 0, stopped by the deadline or not.
C22_ExitContract ==
    [][ main_pc' \in {"exit_0", "exit_1"} /\ main_pc' # main_pc =>
          /\ main_pc' = "exit_0" <=> (main_pc = "returned" /\ stats.errors = 0)
          /\ main_pc' = "exit_1" <=> (main_pc = "raised" \/ stats.errors > 0) ]_vars

\* A run stopped by the deadline after its first record, with no error,
\* has exited with the success code.
C22_Witness ==
    /\ main_pc = "exit_0"
    /\ stats.timeout_stop
    /\ stats.errors = 0
    /\ stats.total_scanned = 1
    /\ Len(docs) > 1

\* C23: every run that does not end in a run-level fatal fault has
\* produced the end-of-run report (print_report) when it returns, a run
\* with an empty working set and a run stopped by the deadline included.
C23_AlwaysReported ==
    main_pc = "returned" => reported

\* C24: check_link never raises: whatever the transport ends with (a
\* final status, a timeout, a connection error, retries used up on a
\* status of the force list, any other exception) it returns a pair, and
\* an unreachable result carries a non-empty detail; for an absent or
\* empty url it returns (false, "URL missing") and no request is sent.
C24_AlwaysAResult ==
    \A d \in DocIds :
        /\ ~task[d].raised
        /\ task[d].attempts <= config.retry_attempts + 1
        /\ UrlOf(catalog[d]) = "" => ~task[d].probed /\ task[d].attempts = 0
        /\ task[d].pc = "done" =>
              /\ ~task[d].link.is_working => task[d].link.error_msg \notin {"", "None"}
              /\ UrlOf(catalog[d]) = "" =>
                    task[d].link = [is_working |-> FALSE, error_msg |-> "URL missing"]
              /\ UrlOf(catalog[d]) # "" => task[d].probed

\* The retries were used up on answers of the force list: check_link has
\* returned the detail of the exception the transport raised.
C24_Witness ==
    \E d \in DocIds :
        /\ task[d].pc = "done"
        /\ task[d].attempts = config.retry_attempts + 1
        /\ task[d].link = [is_working |-> FALSE, error_msg |-> "Unknown error: e"]

\* C25: check_link classifies every final response with a status code
\* from 200 through 299 as reachable and every final response with a
\* status code outside that range as unreachable.
C25_TwoHundredsReachable ==
    \A d \in DocIds :
        LET head == remote[UrlOf(task[d].book_data)] IN
        (task[d].probed /\ head.kind = "response") =>
            (task[d].link.is_working <=> head.status_code \in 200..299)

\* C26: whenever records are processed by run_serial (enable_parallel
\* off, or on with a working set of at most 5), the rate-limit delay is
\* slept after each record, before the next one is dispatched.
C26_SerialPaced ==
    ~UseParallel(config, Len(docs)) =>
        \A d \in DocIds : Completed(d) => task[d].slept

\* C27: within one run every record of the working set is dispatched at
\* most once, its link is probed at most once, and at most one catalog
\* update is issued for it, which changes that record's document only.
C27_OncePerRecord ==
    [][ /\ \A i, j \in 1..Len(docs') : docs'[i].id = docs'[j].id => i = j
        /\ \A d \in DocIds :
              /\ (task'[d].pc \in {"queued", "start"} /\ task[d].pc # task'[d].pc) =>
                    task[d].pc \in {"none", "queued"}
              /\ (task'[d].pc = "queued" /\ task[d].pc # "queued") => task[d].pc = "none"
              /\ (task[d].pc # "none" /\ main_pc # "idle") => task'[d].pc # "none"
              /\ (task'[d].pc = "link_store" /\ task[d].pc # "link_store") =>
                    ~task[d].probed
              /\ task[d].probed => task'[d].link = task[d].link
              /\ task[d].written => catalog'[d] = catalog[d]
              /\ catalog'[d] # catalog[d] =>
                    /\ task[d].pc = "reconcile"
                    /\ task'[d].written
                    /\ \A e \in DocIds \ {d} : catalog'[e] = catalog[e] ]_vars

\* A parallel run has returned with every record dispatched and written,
\* all but the one without a url probed.
C27_Witness ==
    /\ main_pc = "returned"
    /\ UseParallel(config, Len(docs))
    /\ \A d \in DocIds : task[d].written
    /\ Cardinality({d \in DocIds : task[d].probed}) = Cardinality(DocIds) - 1

\* A record without its timestamp fields.
NoStamps(rec) ==
    [f \in DOMAIN rec \ {"last_checked", "last_fixer_run"} |-> rec[f]]

\* What a record of the run-level catalogs is to hold, timestamps apart,
\* once it has been verified: the dead link marked broken with the
\* probe's detail, the repaired one published without error_message, the
\* others as they were.
FinalRecord(d) ==
    CASE d = 1 -> Book(UrlGone, BROKEN, "Status code: 404", <<"t">>, "c", -1)
      [] d = 2 -> Book(UrlOk, PUBLISHED, "-", <<"t">>, "c", -1)
      [] OTHER -> NoStamps(RunBook(d, 0))

\* C28: for a fixed working set and fixed probe outcomes, with no deadline
\* stop (and no fault), the catalog a run leaves is, timestamps apart, the
\* same for every interleaving of the workers of a parallel run and the
\* same as after a serial run.
C28_OrderIndependent ==
    (main_pc = "returned" /\ ~stats.timeout_stop /\ Faulted = {}) =>
        \A d \in DocIds :
            NoStamps(catalog[d]) =
                IF d \in WorkingSet THEN FinalRecord(d) ELSE NoStamps(RunBook(d, 0))

\* A parallel run over six records has returned, not stopped and without
\* a fault, after its workers interleaved (an increment of fixed_records
\* was lost).
C28_Witness ==
    /\ main_pc = "returned" /\ ~stats.timeout_stop /\ Faulted = {}
    /\ UseParallel(config, Len(docs))
    /\ \A d \in DocIds : task[d].written
    /\ stats.fixed_records < Cardinality(DocIds)
    /\ catalog[1]["status"] = BROKEN /\ catalog[2]["status"] = PUBLISHED

\* The fields a run may write.
EditableFields ==
    {"status", "error_message", "category", "bangla_title", "english_title",
     "author", "last_checked", "last_fixer_run"}

\* C29: a run never creates or deletes a record and never writes
\* download_url: every edit set holds only status, error_message,
\* category, the three text fields, last_checked and last_fixer_run, and
\* the Validator proposes a field absent from its input only for category
\* and status.
C29_OnlyEditableFields ==
    /\ DOMAIN catalog = DOMAIN task
    /\ \A d \in DocIds :
          /\ DOMAIN task[d].updates \subseteq EditableFields
          /\ task[d].pc \notin {"none", "start"} =>
                DOMAIN validate_book(task[d].book_data) \ DOMAIN task[d].book_data
                    \subseteq {"category", "status"}
          /\ task[d].written =>
                /\ \A f \in DOMAIN catalog[d] \ EditableFields :
                      f \in DOMAIN task[d].book_data /\ catalog[d][f] = task[d].book_data[f]
                /\ "download_url" \in DOMAIN task[d].book_data =>
                      /\ "download_url" \in DOMAIN catalog[d]
                      /\ catalog[d]["download_url"] = task[d].book_data["download_url"]

\* A record with neither download_url, category nor status, written with
\* the two defaults and still without a download_url.
C29_Witness ==
    \E d \in DocIds :
        /\ task[d].written
        /\ DOMAIN task[d].book_data \cap {"download_url", "category", "status"} = {}
        /\ catalog[d]["category"] = default_category
        /\ catalog[d]["status"] = default_status
        /\ "download_url" \notin DOMAIN catalog[d]

\* C30: at the end of a run timeout_stop is true if and only if at least
\* one record of the working set was never dispatched; a run that
\* dispatched every record reports timeout_stop = false even when the
\* deadline passed while the last records were processed.
C30_TimeoutMeansUndispatched ==
    main_pc = "returned" =>
        (stats.timeout_stop <=> \E d \in WorkingSet : d \notin Dispatched)

\* A parallel run returned after max_execution_time with every record
\* dispatched and the flag not set.
C30_Witness ==
    /\ main_pc = "returned"
    /\ UseParallel(config, Len(docs))
    /\ now - start_time >= config.max_execution_time
    /\ WorkingSet \subseteq Dispatched
    /\ ~stats.timeout_stop
    /\ reported

\* C31: run returns only after the step of every dispatched record has
\* finished: from the moment the run-level loop is left for the report,
\* also after a deadline stop in parallel mode, no frame is queued or in
\* flight and none holds a counter value still to be written, so neither
\* the returned stats nor the catalog can change afterwards.
C31_ReturnsAfterWorkers ==
    main_pc \in {"finish", "returned"} =>
        \A d \in DocIds :
            /\ task[d].pc \in {"none", "done"}
            /\ task[d].tmp = 0

\* A parallel run stopped by the deadline after more submissions than
\* the pool has threads has returned, every submitted record done.
C31_Witness ==
    /\ main_pc = "returned"
    /\ UseParallel(config, Len(docs))
    /\ stats.timeout_stop
    /\ Cardinality(Dispatched) > config.max_workers
    /\ \A d \in Dispatched : task[d].pc = "done"

\* The step starts the link probe of record d.
ProbeStarts(d) == task'[d].probed /\ ~task[d].probed

\* C32 as stated: in both modes, once timeout_stop has been set no
\* record's link probe is started afterwards.
C32_NoProbeAfterStop_Original ==
    [][ stats.timeout_stop => \A d \in DocIds : ~ProbeStarts(d) ]_vars

\* C32, amended: once timeout_stop has been set no record is dispatched
\* any more; in serial mode no link probe is started afterwards, and in
\* parallel mode a probe started afterwards is that of a record that was
\* submitted to the pool before the flag was set.
C32_NoProbeAfterStop ==
    [][ stats.timeout_stop =>
          /\ Dispatched' = Dispatched
          /\ \A d \in DocIds :
                ProbeStarts(d) =>
                    /\ config.enable_parallel /\ Len(docs) > ParallelThreshold
                    /\ d \in Dispatched ]_vars

\* The flag is set and the submit loop left while a submitted record is
\* one step before its probe and another still waits in the pool's queue.
C32_Witness ==
    /\ stats.timeout_stop
    /\ main_pc = "join"
    /\ \E d, e \in DocIds :
          /\ task[d].pc = "link"
          /\ Truthy(task[d].book_data, "download_url")
          /\ task[e].pc = "queued"
          /\ Truthy(catalog[e], "download_url")

====
